---- MODULE Spec2Model ----
(***************************************************************************)
(* A model of backend/resonator_tsp.py (distance matrix, harmonic route,   *)
(* 2-Opt, run_trial, grid_search) and of the /solve handler of             *)
(* backend/app.py.                                                         *)
(*                                                                         *)
(* Conventions.  A Python list is a TLA+ sequence: Python index k is       *)
(* position k + 1.  Cities are 0 .. n-1.  A distance matrix is a function  *)
(* [0..n-1 -> [0..n-1 -> Int]], so that dist_matrix[a][b] reads as in the  *)
(* source.  None is the empty tuple << >> where the source uses None for   *)
(* "no swap found".                                                        *)
(***************************************************************************)
EXTENDS Integers, Sequences, FiniteSets, TLC

VARIABLES
    pc,                 \* position of the running call
    route,              \* two_opt / run_trial: the route handed to two_opt
    dist_matrix,        \* the distance matrix in use
    max_iterations,     \* two_opt: iteration cap
    best_route,         \* two_opt: working route
    best_cost,          \* two_opt: incrementally maintained cost
    iteration,          \* two_opt: passes executed
    improved,           \* two_opt: flag tested by the while loop
    coords,             \* grid_search: the coordinate list
    N_values,           \* grid_search: harmonic counts to test
    amplitude_values,   \* grid_search: amplitudes to test, in thousandths
    shift_values,       \* grid_search: shifts to test, in hundredths
    seeds,              \* grid_search: number of seeds per combination
    two_opt_iterations, \* grid_search: cap handed to run_trial
    pos,                \* grid_search: position of the four nested loops
    results,            \* grid_search: the list of records
    rng_seed,           \* the seed last given to random.seed, -1 before any
    initial_cost,       \* run_trial: cost of the generated route
    prev_results,       \* what the previous call of grid_search returned
    run,                \* which call of grid_search this is
    request,            \* /solve: the request being answered
    response            \* /solve: the answer

twoOptVars == << route, max_iterations, best_route, best_cost, iteration, improved >>

gridVars == << coords, N_values, amplitude_values, shift_values, seeds,
               two_opt_iterations, pos, results, rng_seed, initial_cost,
               prev_results, run >>

solveVars == << request, response >>

vars == << pc, dist_matrix, twoOptVars, gridVars, solveVars >>

----------------------------------------------------------------------------
(* Bounds of the model *)

MaxCities == 4
MaxDist == 2
MaxIter == 2
MaxSeeds == 2
MaxRuns == 4
MaxElapsed == 2

----------------------------------------------------------------------------
(* compute_route_cost *)

\* total += dist_matrix[route[idx]][route[(idx + 1) % n]] for idx in range(n)
RECURSIVE RouteCostFrom(_, _, _)
RouteCostFrom(r, d, idx) ==
    IF idx >= Len(r) THEN 0
    ELSE d[r[idx + 1]][r[((idx + 1) % Len(r)) + 1]] + RouteCostFrom(r, d, idx + 1)

compute_route_cost(r, d) == RouteCostFrom(r, d, 0)

----------------------------------------------------------------------------
(* two_opt *)

\* range(1, n - 1): the values of i of the outer loop
IRange(n) == 1 .. (n - 2)

\* range(i + 1, n): the values of j of the inner loop
JRange(i, n) == (i + 1) .. (n - 1)

\* delta of the candidate (i, j): lines 269-275
SwapDelta(r, d, i, j) ==
    LET n == Len(r)
        a == r[(i - 1) + 1]
        b == r[i + 1]
        c == r[(j - 1) + 1]
        dd == r[(j % n) + 1]
        current_edges_cost == d[a][b] + d[c][dd]
        proposed_edges_cost == d[a][c] + d[b][dd]
    IN  proposed_edges_cost - current_edges_cost

\* ScanStep keeping the largest delta instead of the smallest
ScanStepWorst(r, d, i, j, acc) ==
    IF j - i = 1 THEN acc
    ELSE IF SwapDelta(r, d, i, j) > acc.best_delta
         THEN [best_delta |-> SwapDelta(r, d, i, j), best_swap |-> << i, j >>]
         ELSE acc

\* One execution of the inner loop body for (i, j), on the pair
\* acc = [best_delta, best_swap]: lines 266-279
ScanStep(r, d, i, j, acc) ==
    IF j - i = 1 THEN acc
    ELSE IF SwapDelta(r, d, i, j) < acc.best_delta
         THEN [best_delta |-> SwapDelta(r, d, i, j), best_swap |-> << i, j >>]
         ELSE acc

\* The two nested for loops, in their order of iteration: lines 264-279
RECURSIVE ScanFrom(_, _, _, _, _)
ScanFrom(r, d, i, j, acc) ==
    LET n == Len(r) IN
    IF i \notin IRange(n) THEN acc
    ELSE IF j \notin JRange(i, n) THEN ScanFrom(r, d, i + 1, i + 2, acc)
    ELSE ScanFrom(r, d, i, j + 1, ScanStep(r, d, i, j, acc))

\* best_delta = 0, best_swap = None, then the scan: lines 261-279
Scan(r, d) == ScanFrom(r, d, 1, 2, [best_delta |-> 0, best_swap |-> << >>])

\* ReverseSegment reversing route[i:j+1], one element too many
ReverseSegmentInclusive(r, i, j) ==
    [p \in 1 .. Len(r) |->
        IF p >= i + 1 /\ p <= j + 1 THEN r[i + j + 2 - p] ELSE r[p]]

\* ReverseSegment reading one position too far to the left
ReverseSegmentShifted(r, i, j) ==
    [p \in 1 .. Len(r) |-> IF p >= i + 1 /\ p <= j THEN r[i + j - p] ELSE r[p]]

\* best_route[i:j] = reversed(best_route[i:j]): line 283
ReverseSegment(r, i, j) ==
    [p \in 1 .. Len(r) |-> IF p >= i + 1 /\ p <= j THEN r[i + j + 1 - p] ELSE r[p]]

\* LoopCond without the iteration cap
LoopCondNoCap(imp, it, cap) == imp

\* while improved and iteration < max_iterations: line 259
LoopCond(imp, it, cap) == imp /\ it < cap

\* The body of the while loop, one pass: lines 260-287
PassResult(r, cost, d) ==
    LET s == Scan(r, d) IN
    IF s.best_swap # << >>
    THEN [best_route |-> ReverseSegment(r, s.best_swap[1], s.best_swap[2]),
          best_cost |-> cost + s.best_delta,
          improved |-> TRUE]
    ELSE [best_route |-> r, best_cost |-> cost, improved |-> FALSE]

\* One iteration of the while loop of two_opt
TwoOptPass ==
    /\ pc = "two_opt_loop"
    /\ LoopCond(improved, iteration, max_iterations)
    /\ LET p == PassResult(best_route, best_cost, dist_matrix) IN
        /\ best_route' = p.best_route
        /\ best_cost' = p.best_cost
        /\ improved' = p.improved
    /\ iteration' = iteration + 1
    /\ UNCHANGED << pc, route, dist_matrix, max_iterations, gridVars, solveVars >>

\* The loop exits and two_opt returns (best_route, best_cost): line 289
TwoOptReturn ==
    /\ pc = "two_opt_loop"
    /\ ~ LoopCond(improved, iteration, max_iterations)
    /\ pc' = "two_opt_done"
    /\ UNCHANGED << dist_matrix, twoOptVars, gridVars, solveVars >>

\* two_opt as a call: lines 254-258, then the loop to its exit, line 289
RECURSIVE TwoOptLoop(_, _, _, _, _, _)
TwoOptLoop(r, cost, d, it, imp, cap) ==
    IF LoopCond(imp, it, cap)
    THEN LET p == PassResult(r, cost, d)
         IN  TwoOptLoop(p.best_route, p.best_cost, d, it + 1, p.improved, cap)
    ELSE [best_route |-> r, best_cost |-> cost, iteration |-> it, improved |-> imp]

two_opt(r, d, cap) == TwoOptLoop(r, compute_route_cost(r, d), d, 0, TRUE, cap)

----------------------------------------------------------------------------
(* compute_distance_matrix, on integer coordinates *)

\* RoundSqrt rounding up instead of to the nearest integer
RoundSqrtUp(m) == CHOOSE k \in 0 .. m : m <= k * k /\ \A h \in 0 .. (k - 1) : m > h * h

\* int(round(math.sqrt(m))) for an integer m >= 0.  The square root of an
\* integer is never half way between two integers, so the nearest integer
\* is the least k with sqrt(m) < k + 1/2, that is 4m < (2k + 1)^2.
RoundSqrt(m) ==
    CHOOSE k \in 0 .. m :
        /\ 4 * m < (2 * k + 1) * (2 * k + 1)
        /\ \A h \in 0 .. (k - 1) : 4 * m >= (2 * h + 1) * (2 * h + 1)

\* dij = math.sqrt((xi - xj) ** 2 + (yi - yj) ** 2); dist_ij = int(round(dij))
PairDistance(p, q) ==
    RoundSqrt((p[1] - q[1]) * (p[1] - q[1]) + (p[2] - q[2]) * (p[2] - q[2]))

\* dist = [[0] * n for _ in range(n)], then dist[i][j] = dist[j][i] = dist_ij
\* for every i < j
compute_distance_matrix(cs) ==
    LET n == Len(cs) IN
    [i \in 0 .. (n - 1) |-> [j \in 0 .. (n - 1) |->
        IF i < j THEN PairDistance(cs[i + 1], cs[j + 1])
        ELSE IF j < i THEN PairDistance(cs[j + 1], cs[i + 1])
        ELSE 0]]

----------------------------------------------------------------------------
(* harmonic_values and generate_resonator_route                            *)
(*                                                                         *)
(* Reals are kept as scaled integers.  An amplitude is given in            *)
(* thousandths and a shift in hundredths.  The angle k * theta, with       *)
(* theta = 2 pi (i + shift) / n, is counted in 48ths of a turn, which is   *)
(* exact when the shift is a multiple of 0.25 and n divides 12; math.cos   *)
(* is its value on that grid to four decimals.  Each term                  *)
(* (amplitude / k) * cos(k * theta) is multiplied by N! so that the        *)
(* division by k is exact: the order of the scores is unchanged.  The      *)
(* parameters drawn below keep distinct scores farther apart than the      *)
(* rounding of the table and of the floats.                                *)

\* 10^4 * cos(u * 7.5 degrees), u = 0 .. 12
CosQuarter == << 10000, 9914, 9659, 9239, 8660, 7934, 7071, 6088, 5000, 3827,
                 2588, 1305, 0 >>

\* 10^4 * math.cos(2 pi u / 48)
Cos48(u) ==
    LET v == u % 48
        w == IF v > 24 THEN 48 - v ELSE v
    IN  IF w <= 12 THEN CosQuarter[w + 1] ELSE 0 - CosQuarter[(24 - w) + 1]

\* theta = 2.0 * math.pi * ((i + shift) / n), in 48ths of a turn
Theta48(i, n, shift) == ((4 * i + (shift \div 25)) * 12) \div n

RECURSIVE Factorial(_)
Factorial(k) == IF k <= 1 THEN 1 ELSE k * Factorial(k - 1)

\* s += (amplitude / float(k)) * math.cos(k * theta), for k in range(1, N + 1)
RECURSIVE HarmonicSum(_, _, _, _)
HarmonicSum(k, N, amplitude, theta) ==
    IF k > N THEN 0
    ELSE ((amplitude * Factorial(N)) \div k) * Cos48(k * theta)
         + HarmonicSum(k + 1, N, amplitude, theta)

\* harmonic_values_raises with the division by n done before the loop
harmonic_values_raises_hoisted(n) == n = 0

\* The division (i + shift) / n is executed once for every i in range(n):
\* it raises ZeroDivisionError if one of these executions has n = 0.
harmonic_values_raises(n) == \E i \in 0 .. (n - 1) : n = 0

\* values.append(s), for i in range(n): the list of the scores
RECURSIVE HarmonicValuesFrom(_, _, _, _, _)
HarmonicValuesFrom(i, n, N, amplitude, shift) ==
    IF i >= n THEN << >>
    ELSE << HarmonicSum(1, N, amplitude, Theta48(i, n, shift)) >>
         \o HarmonicValuesFrom(i + 1, n, N, amplitude, shift)

harmonic_values(n, N, amplitude, shift) == HarmonicValuesFrom(0, n, N, amplitude, shift)

\* sorted(range(n), key=lambda idx: values[idx]): ascending and stable, so
\* idx stands after every index of smaller value and after every smaller
\* index of equal value.
SortedIndices(n, values) ==
    LET Before(a, b) == \/ values[a + 1] < values[b + 1]
                        \/ (values[a + 1] = values[b + 1] /\ a < b)
        Rank(b) == Cardinality({a \in 0 .. (n - 1) : Before(a, b)})
    IN  [p \in 1 .. n |-> CHOOSE b \in 0 .. (n - 1) : Rank(b) = p - 1]

generate_resonator_route(n, N, amplitude, shift) ==
    SortedIndices(n, harmonic_values(n, N, amplitude, shift))

----------------------------------------------------------------------------
(* run_trial *)

\* (idx + 1) % n is executed once for every idx in range(n)
compute_route_cost_raises(r) == \E idx \in 0 .. (Len(r) - 1) : Len(r) = 0

\* Whether the call raises instead of returning
run_trial_raises(cs, d, N, amplitude, shift, cap) ==
    \/ harmonic_values_raises(Len(cs))
    \/ compute_route_cost_raises(generate_resonator_route(Len(cs), N, amplitude, shift))

\* The locals of run_trial at its return: lines 320-324
run_trial(cs, d, N, amplitude, shift, cap) ==
    LET n == Len(cs)
        r == generate_resonator_route(n, N, amplitude, shift)
        t == two_opt(r, d, cap)
    IN  [route |-> r,
         initial_cost |-> compute_route_cost(r, d),
         improved_route |-> t.best_route,
         improved_cost |-> t.best_cost,
         iteration |-> t.iteration,
         improved |-> t.improved]

----------------------------------------------------------------------------
(* The parts of the state a call does not use *)

TwoOptIdle ==
    /\ route = << >>
    /\ max_iterations = 0
    /\ best_route = << >>
    /\ best_cost = 0
    /\ iteration = 0
    /\ improved = FALSE

GridIdle ==
    /\ coords = << >>
    /\ N_values = << >>
    /\ amplitude_values = << >>
    /\ shift_values = << >>
    /\ seeds = 0
    /\ two_opt_iterations = 0
    /\ pos = << >>
    /\ results = << >>
    /\ rng_seed = -1
    /\ initial_cost = 0
    /\ prev_results = << >>
    /\ run = 0

SolveIdle ==
    /\ request = << >>
    /\ response = << >>

----------------------------------------------------------------------------
(* Inputs of two_opt *)

\* The permutations of 0 .. n-1, as routes
Perms(n) ==
    { s \in [1 .. n -> 0 .. (n - 1)] : \A p, q \in 1 .. n : s[p] = s[q] => p = q }

UpperPairs(n) == { pr \in (0 .. (n - 1)) \X (0 .. (n - 1)) : pr[1] < pr[2] }

\* Off-diagonal entries of the tables handed to two_opt: short and long edges
DistValues == {1, MaxDist}

\* The symmetric, zero-diagonal table with upper triangle u
SymTable(n, u) ==
    [a \in 0 .. (n - 1) |-> [b \in 0 .. (n - 1) |->
        IF a = b THEN 0 ELSE IF a < b THEN u[<< a, b >>] ELSE u[<< b, a >>]]]

\* two_opt has not been called yet
InitTwoOpt ==
    /\ pc = "two_opt_idle"
    /\ dist_matrix = << >>
    /\ TwoOptIdle
    /\ GridIdle
    /\ SolveIdle

\* The call two_opt(route, dist_matrix, max_iterations) and the assignments
\* before the loop: lines 254-258
TwoOptCall ==
    /\ pc = "two_opt_idle"
    /\ \E n \in 0 .. MaxCities :
         \E r \in Perms(n) :
           \E u \in [UpperPairs(n) -> DistValues] :
             \E cap \in 0 .. MaxIter :
               /\ route' = r
               /\ dist_matrix' = SymTable(n, u)
               /\ max_iterations' = cap
               /\ best_route' = r
               /\ best_cost' = compute_route_cost(r, SymTable(n, u))
               /\ iteration' = 0
               /\ improved' = TRUE
    /\ pc' = "two_opt_loop"
    /\ UNCHANGED << gridVars, solveVars >>

NextTwoOpt == TwoOptCall \/ TwoOptPass \/ TwoOptReturn

SpecTwoOpt == InitTwoOpt /\ [][NextTwoOpt]_vars

----------------------------------------------------------------------------
(* grid_search *)

\* SweepRecord with the elapsed time stored as the final cost
SweepRecordTimeAsCost(N, amplitude, shift, seed, init_cost, improved_cost, elapsed) ==
    [N |-> N, amplitude |-> amplitude, shift |-> shift, seed |-> seed,
     initial_cost |-> init_cost, final_cost |-> elapsed,
     time_seconds |-> elapsed]

\* The record appended for one trial: lines 378-386
SweepRecord(N, amplitude, shift, seed, init_cost, improved_cost, elapsed) ==
    [N |-> N, amplitude |-> amplitude, shift |-> shift, seed |-> seed,
     initial_cost |-> init_cost, final_cost |-> improved_cost,
     time_seconds |-> elapsed]

\* The first position of the four nested for loops whose body runs, << >> if
\* the body never runs.  A position is << index into N_values, index into
\* amplitude_values, index into shift_values, seed >>.
FirstPos(lenN, lenA, lenS, nseeds) ==
    IF lenN = 0 \/ lenA = 0 \/ lenS = 0 \/ nseeds = 0 THEN << >>
    ELSE << 1, 1, 1, 0 >>

\* NextPos with the loop over the amplitudes inside the loop over the shifts
NextPosAmplitudeInside(p, lenN, lenA, lenS, nseeds) ==
    IF p[4] + 1 < nseeds THEN << p[1], p[2], p[3], p[4] + 1 >>
    ELSE IF p[2] < lenA THEN << p[1], p[2] + 1, p[3], 0 >>
    ELSE IF p[3] < lenS THEN << p[1], 1, p[3] + 1, 0 >>
    ELSE IF p[1] < lenN THEN << p[1] + 1, 1, 1, 0 >>
    ELSE << >>

\* The position of the next execution of the body: the innermost loop that
\* has a value left advances and the loops inside it restart: lines 365-368
NextPos(p, lenN, lenA, lenS, nseeds) ==
    IF p[4] + 1 < nseeds THEN << p[1], p[2], p[3], p[4] + 1 >>
    ELSE IF p[3] < lenS THEN << p[1], p[2], p[3] + 1, 0 >>
    ELSE IF p[2] < lenA THEN << p[1], p[2] + 1, 1, 0 >>
    ELSE IF p[1] < lenN THEN << p[1] + 1, 1, 1, 0 >>
    ELSE << >>

\* random.seed(seed): line 369
SeedRandom(seed) == seed

\* dist_matrix = compute_distance_matrix(coords); results = []: lines 363-364
GridStart ==
    /\ pc = "grid_start"
    /\ dist_matrix' = compute_distance_matrix(coords)
    /\ results' = << >>
    /\ pos' = FirstPos(Len(N_values), Len(amplitude_values), Len(shift_values), seeds)
    /\ pc' = "grid_loop"
    /\ UNCHANGED << twoOptVars, coords, N_values, amplitude_values, shift_values,
                    seeds, two_opt_iterations, rng_seed, initial_cost,
                    prev_results, run, solveVars >>

\* One execution of the body of the innermost loop: lines 369-386.  The
\* elapsed time is the difference of two readings of time.perf_counter().
GridTrial ==
    /\ pc = "grid_loop"
    /\ pos # << >>
    /\ LET N == N_values[pos[1]]
           amplitude == amplitude_values[pos[2]]
           shift == shift_values[pos[3]]
           seed == pos[4]
       IN
        /\ rng_seed' = SeedRandom(seed)
        /\ IF run_trial_raises(coords, dist_matrix, N, amplitude, shift,
                               two_opt_iterations)
           THEN /\ pc' = "grid_raised"
                /\ UNCHANGED << twoOptVars, pos, results, initial_cost >>
           ELSE \E t \in {run_trial(coords, dist_matrix, N, amplitude, shift,
                                    two_opt_iterations)} :
                    /\ route' = t.route
                    /\ initial_cost' = t.initial_cost
                    /\ max_iterations' = two_opt_iterations
                    /\ best_route' = t.improved_route
                    /\ best_cost' = t.improved_cost
                    /\ iteration' = t.iteration
                    /\ improved' = t.improved
                    /\ \E elapsed \in 1 .. MaxElapsed :
                         results' = Append(results,
                             SweepRecord(N, amplitude, shift, seed, t.initial_cost,
                                         t.improved_cost, elapsed))
                    /\ pos' = NextPos(pos, Len(N_values), Len(amplitude_values),
                                      Len(shift_values), seeds)
                    /\ pc' = pc
    /\ UNCHANGED << dist_matrix, coords, N_values, amplitude_values, shift_values,
                    seeds, two_opt_iterations, prev_results, run, solveVars >>

\* return results: line 387
GridReturn ==
    /\ pc = "grid_loop"
    /\ pos = << >>
    /\ pc' = "grid_done"
    /\ UNCHANGED << dist_matrix, twoOptVars, gridVars, solveVars >>

\* The caller keeps what was returned and calls grid_search again with the
\* same arguments.
GridRerun ==
    /\ pc = "grid_done"
    /\ run = 1
    /\ prev_results' = results
    /\ run' = 2
    /\ pc' = "grid_start"
    /\ UNCHANGED << dist_matrix, twoOptVars, coords, N_values, amplitude_values,
                    shift_values, seeds, two_opt_iterations, pos, results,
                    rng_seed, initial_cost, solveVars >>

----------------------------------------------------------------------------
(* Inputs of grid_search *)

Empty == << >>
Single == << << 0, 0 >> >>
Square == << << 0, 0 >>, << 0, 1 >>, << 1, 1 >>, << 1, 0 >> >>
Rectangle == << << 0, 0 >>, << 0, 3 >>, << 4, 3 >>, << 4, 0 >> >>

CoordLists == { Empty, Single, Square, Rectangle }

NLists == { << >>, << 1 >>, << 2, 1 >> }
AmplitudeLists == { << 3 >>, << 0, 3 >> }
ShiftLists == { << 25 >>, << 25, 75 >> }

\* grid_search(coords, N_values, amplitude_values, shift_values, seeds,
\* two_opt_iterations) at its entry, called for the first time
InitGrid ==
    \E cs \in CoordLists :
      \E nl \in NLists :
        \E al \in AmplitudeLists :
          \E sl \in ShiftLists :
            \E sd \in 0 .. MaxSeeds :
              \E cap \in 0 .. MaxIter :
                /\ Len(nl) * Len(al) * Len(sl) * sd <= MaxRuns
                /\ pc = "grid_start"
                /\ dist_matrix = << >>
                /\ TwoOptIdle
                /\ coords = cs
                /\ N_values = nl
                /\ amplitude_values = al
                /\ shift_values = sl
                /\ seeds = sd
                /\ two_opt_iterations = cap
                /\ pos = << >>
                /\ results = << >>
                /\ rng_seed = -1
                /\ initial_cost = 0
                /\ prev_results = << >>
                /\ run = 1
                /\ SolveIdle

NextGrid == GridStart \/ GridTrial \/ GridReturn \/ GridRerun

SpecGrid == InitGrid /\ [][NextGrid]_vars

----------------------------------------------------------------------------
(* The /solve handler of app.py                                            *)
(*                                                                         *)
(* A JSON value of the request is a record [kind, val]: kind is "missing"  *)
(* (the key is absent), "null", "text" (a string that is no number),       *)
(* "num" (val is the number) or "list" (val is the list).  The body itself *)
(* is [kind |-> "null"] or [kind |-> "object", coords, params], and params *)
(* is [kind |-> "null"] or [kind |-> "object", N, A, shift, ils_iter].     *)

DefaultN == 10
DefaultA == 3
DefaultShift == 33
DefaultTwoOptIterations == 2000

\* The parameters of run_trial: lines 292-297
run_trial_parameters ==
    { "coords", "dist_matrix", "N", "amplitude", "shift", "two_opt_iterations" }

\* How many values run_trial returns: line 324
run_trial_returns == << "initial_cost", "improved_cost" >>

\* The keywords of the call of rt.run_trial: lines 32-39
solve_call_keywords ==
    { "coords", "dist_matrix", "N", "amplitude", "shift", "ils_iterations" }

\* The targets of the assignment of its result: line 32
solve_call_targets == << "initial_cost", "final_cost", "final_route" >>

\* int(params.get(key, default)) and float(params.get(key, default)): the
\* exception raised, "" if none
ConvertRaises(v) ==
    IF v.kind = "text" THEN "ValueError"
    ELSE IF v.kind = "null" \/ v.kind = "list" THEN "TypeError"
    ELSE ""

Convert(v, default) == IF v.kind = "missing" THEN default ELSE v.val

\* not coords or not isinstance(coords, list): line 26
CoordsRejected(c) ==
    \/ c.kind = "missing" \/ c.kind = "null"
    \/ (c.kind = "text" /\ c.val = "")
    \/ (c.kind = "num" /\ c.val = 0)
    \/ (c.kind = "list" /\ c.val = << >>)
    \/ c.kind # "list"

ErrorResponse(status, message) ==
    [status |-> status, body |-> [error |-> message]]

\* The jsonify of lines 41-46
SuccessResponse(init_cost, final_cost, final_route) ==
    [status |-> 200,
     body |-> [initial_cost |-> init_cost, final_cost |-> final_cost,
               final_route |-> final_route,
               message |-> "Solução encontrada com sucesso!"]]

\* The exception of the first conversion that raises, lines 21-24, "" if none
ParamsRaise(p) ==
    IF ConvertRaises(p.N) # "" THEN ConvertRaises(p.N)
    ELSE IF ConvertRaises(p.A) # "" THEN ConvertRaises(p.A)
    ELSE IF ConvertRaises(p.shift) # "" THEN ConvertRaises(p.shift)
    ELSE ConvertRaises(p.ils_iter)

\* The call of rt.run_trial and the assignment of its result: lines 32-39
CallRunTrial(cs, d, N, A, s) ==
    IF ~ (solve_call_keywords \subseteq run_trial_parameters)
    THEN ErrorResponse(500, "TypeError")
    ELSE IF Len(run_trial_returns) # Len(solve_call_targets)
    THEN ErrorResponse(500, "ValueError")
    ELSE IF run_trial_raises(cs, d, N, A, s, DefaultTwoOptIterations)
    THEN ErrorResponse(500, "ZeroDivisionError")
    ELSE LET t == run_trial(cs, d, N, A, s, DefaultTwoOptIterations)
         IN  SuccessResponse(t.initial_cost, t.improved_cost, t.improved_route)

\* solve_tsp: the try block, lines 17-46, and the except clause, lines 48-49
solve_tsp(data) ==
    IF data.kind # "object" THEN ErrorResponse(500, "AttributeError")
    ELSE IF data.params.kind # "object" THEN ErrorResponse(500, "AttributeError")
    ELSE IF ParamsRaise(data.params) # ""
    THEN ErrorResponse(500, ParamsRaise(data.params))
    ELSE IF CoordsRejected(data.coords)
    THEN ErrorResponse(400, "Coordenadas ('coords') inválidas ou ausentes.")
    ELSE CallRunTrial(data.coords.val,
                      compute_distance_matrix(data.coords.val),
                      Convert(data.params.N, DefaultN),
                      Convert(data.params.A, DefaultA),
                      Convert(data.params.shift, DefaultShift))

\* The request bodies
Missing == [kind |-> "missing", val |-> 0]
Null == [kind |-> "null", val |-> 0]
Text == [kind |-> "text", val |-> "abc"]
Num(x) == [kind |-> "num", val |-> x]
List(l) == [kind |-> "list", val |-> l]

CoordValues == { Missing, Null, Text, List(Empty), List(Square), List(Rectangle) }

ParamObjects ==
    [ kind : {"object"},
      N : { Text, Num(2) },
      A : { Missing, Num(3) },
      shift : { Null, Num(25) },
      ils_iter : { Missing, Text, Num(50) } ]

RequestBodies ==
    { [kind |-> "null"] }
    \cup [ kind : {"object"}, coords : CoordValues,
           params : { [kind |-> "null"] } \cup ParamObjects ]

\* The server is up and has answered nothing yet
InitSolve ==
    /\ pc = "serving"
    /\ dist_matrix = << >>
    /\ TwoOptIdle
    /\ GridIdle
    /\ request = [kind |-> "none"]
    /\ response = [status |-> 0, body |-> [error |-> ""]]

\* A POST to /solve is answered
SolveTsp ==
    /\ pc = "serving"
    /\ \E data \in RequestBodies :
        /\ request' = data
        /\ response' = solve_tsp(data)
    /\ UNCHANGED << pc, dist_matrix, twoOptVars, gridVars >>

NextSolve == SolveTsp

SpecSolve == InitSolve /\ [][NextSolve]_vars

----------------------------------------------------------------------------
(* The claims *)

\* C1: the cost two_opt maintains is never greater than the direct-summation
\* cost of the route it was given, which is run_trial's initial cost, and no
\* pass increases it.
CostNeverIncreases ==
    /\ [](best_cost <= compute_route_cost(route, dist_matrix))
    /\ [][pc = "two_opt_loop" => best_cost' <= best_cost]_vars

\* two_opt has returned a cost strictly below the cost of its input
CostDecreased ==
    /\ pc = "two_opt_done"
    /\ best_cost < compute_route_cost(route, dist_matrix)

\* C2: after every pass the incrementally maintained best_cost equals
\* compute_route_cost(best_route, dist_matrix).
DeltaMatchesDirectCost ==
    best_cost = compute_route_cost(best_route, dist_matrix)

\* a pass has applied a reversal
ReversalApplied ==
    /\ pc = "two_opt_loop"
    /\ iteration >= 1
    /\ improved
    /\ best_route # route

\* C3: the working route of two_opt is a permutation of 0 .. n-1 after every
\* pass and at return.
RouteStaysPermutation ==
    /\ Len(best_route) = Len(route)
    /\ \A c \in 0 .. (Len(route) - 1) :
         Cardinality({ p \in 1 .. Len(best_route) : best_route[p] = c }) = 1

\* two_opt has returned a route other than the one it was given
ReturnedOtherRoute ==
    /\ pc = "two_opt_done"
    /\ Len(route) >= 4
    /\ best_route # route

\* C4: two_opt executes at most max_iterations passes and leaves the loop
\* right after a pass that found no improving move.  The passes are counted
\* by iteration: a step taken in the loop is either the return or a pass that
\* adds one to iteration, and iteration never exceeds max_iterations.
TwoOptTerminates ==
    /\ [](iteration <= max_iterations)
    /\ [][pc = "two_opt_loop" =>
             (pc' = "two_opt_done" \/ iteration' = iteration + 1)]_vars
    /\ [][(pc = "two_opt_loop" /\ ~ improved) => pc' = "two_opt_done"]_vars

\* two_opt was stopped by the cap right after an improving pass
StoppedByCap ==
    /\ pc = "two_opt_done"
    /\ improved
    /\ max_iterations >= 1
    /\ iteration = max_iterations

\* The route [0, 1, ..., n-1]
IdentityRoute(n) == [p \in 1 .. n |-> p - 1]

\* C5: for a coordinate list of length 0 or 1 nothing raises, the distance
\* table is empty or the 1x1 zero matrix, the route is [] or [0], and every
\* trial reports initial cost 0 and final cost 0.
DegenerateInstanceIsTrivial ==
    (Len(coords) <= 1 /\ pc \in {"grid_loop", "grid_done", "grid_raised"}) =>
        /\ pc # "grid_raised"
        /\ dist_matrix = [i \in 0 .. (Len(coords) - 1) |->
                             [j \in 0 .. (Len(coords) - 1) |-> 0]]
        /\ results # << >> =>
             /\ route = IdentityRoute(Len(coords))
             /\ best_route = IdentityRoute(Len(coords))
             /\ initial_cost = 0
             /\ best_cost = 0
        /\ \A k \in 1 .. Len(results) :
             results[k].initial_cost = 0 /\ results[k].final_cost = 0

\* a trial has run on the empty coordinate list
EmptyInstanceTried ==
    /\ pc = "grid_done"
    /\ coords = << >>
    /\ results # << >>

\* The number of records a complete sweep holds
TotalRuns == Len(N_values) * Len(amplitude_values) * Len(shift_values) * seeds

\* C6: record k of the sweep belongs to the k-th combination in nested
\* order, N outermost, then amplitude, then shift, then the seed index; a
\* finished sweep holds one record per combination; the random source was
\* seeded with the seed index of the last trial; and the distance table is
\* that of the coordinates, computed before the first trial and left alone
\* by the trials.
SweepOrder ==
    /\ [](/\ \A k \in 1 .. Len(results) :
               LET q == k - 1
                   perN == Len(amplitude_values) * Len(shift_values) * seeds
                   perA == Len(shift_values) * seeds
               IN  /\ k <= TotalRuns
                   /\ results[k].N = N_values[(q \div perN) + 1]
                   /\ results[k].amplitude = amplitude_values[((q \div perA) % Len(amplitude_values)) + 1]
                   /\ results[k].shift = shift_values[((q \div seeds) % Len(shift_values)) + 1]
                   /\ results[k].seed = q % seeds
          /\ pc = "grid_done" => Len(results) = TotalRuns
          /\ (pc \in {"grid_loop", "grid_done"} /\ results # << >>) =>
               rng_seed = results[Len(results)].seed
          /\ pc \in {"grid_loop", "grid_done"} =>
               dist_matrix = compute_distance_matrix(coords))
    /\ [][pc = "grid_loop" => dist_matrix' = dist_matrix]_vars

\* a sweep over two values of N and two amplitudes has finished
SweepOfFourFinished ==
    /\ pc = "grid_done"
    /\ run = 1
    /\ Len(N_values) = 2
    /\ Len(amplitude_values) = 2
    /\ Len(results) = 4

\* C7 as stated: the second of two calls of grid_search with the same
\* configuration returns the records the first returned, elapsed time
\* included.
RerunIdentical ==
    (pc = "grid_done" /\ run = 2) => results = prev_results

\* A record without its elapsed time
WithoutTime(rec) ==
    << rec.N, rec.amplitude, rec.shift, rec.seed, rec.initial_cost, rec.final_cost >>

\* C7 as amended: the second call returns as many records as the first, and
\* each agrees with the first call's record in N, amplitude, shift, seed,
\* initial cost and final cost.
RerunIdenticalButTime ==
    (pc = "grid_done" /\ run = 2) =>
        /\ Len(results) = Len(prev_results)
        /\ \A k \in 1 .. Len(results) :
             WithoutTime(results[k]) = WithoutTime(prev_results[k])

\* two calls have finished and their records differ
RerunDiffers ==
    /\ pc = "grid_done"
    /\ run = 2
    /\ Len(results) >= 2
    /\ results # prev_results

\* The request body holds a non-empty list of coordinates and numeric params
ValidRequest(data) ==
    /\ data.kind = "object"
    /\ data.coords.kind = "list"
    /\ data.coords.val # << >>
    /\ data.params.kind = "object"
    /\ data.params.N.kind = "num"
    /\ data.params.A.kind = "num"
    /\ data.params.shift.kind = "num"
    /\ data.params.ils_iter.kind = "num"

\* C8: a valid request is answered with the success body; an error body is
\* the answer to an invalid request only.
ValidRequestSucceeds ==
    /\ ValidRequest(request) =>
         /\ response.status = 200
         /\ DOMAIN response.body =
              {"initial_cost", "final_cost", "final_route", "message"}
    /\ (request.kind # "none" /\ DOMAIN response.body = {"error"}) =>
         ~ ValidRequest(request)

\* Square is symmetric with a zero diagonal and entries >= 0 in the table d,
\* its adjacent corners are 1 apart and its diagonal corners diag apart
SquareTable(d, diag) ==
    /\ \A i, j \in 0 .. 3 : d[i][j] = d[j][i] /\ d[i][j] >= 0
    /\ \A i \in 0 .. 3 : d[i][i] = 0
    /\ d[0][1] = 1 /\ d[1][2] = 1 /\ d[2][3] = 1 /\ d[3][0] = 1
    /\ d[0][2] = diag /\ d[1][3] = diag

\* C9 as stated: the table of the unit square has 1 between adjacent corners
\* and 2 between diagonal corners.
SquareDiagonalIsTwo ==
    (coords = Square /\ pc \in {"grid_loop", "grid_done"}) =>
        SquareTable(dist_matrix, 2)

\* C9 as amended: the table of the unit square is symmetric, zero on the
\* diagonal, non-negative, 1 between adjacent corners and 1 between diagonal
\* corners.
SquareDiagonalIsOne ==
    (coords = Square /\ pc \in {"grid_loop", "grid_done"}) =>
        SquareTable(dist_matrix, 1)

\* the table of the unit square has been computed
SquareTableComputed ==
    /\ coords = Square
    /\ pc = "grid_loop"
    /\ DOMAIN dist_matrix = 0 .. 3

\* C10: when two_opt returns before the cap, no pair (i, j) with
\* 1 <= i < n-1 and i+1 < j <= n has a negative delta on the returned route.
NoImprovingMoveAtReturn ==
    (pc = "two_opt_done" /\ iteration < max_iterations) =>
        \A i \in 1 .. (Len(best_route) - 2) :
          \A j \in (i + 2) .. Len(best_route) :
            SwapDelta(best_route, dist_matrix, i, j) >= 0

====
